---------------------------- MODULE Spec2Model ----------------------------
(***************************************************************************)
(* TinyBMS register protocol of Exemple/test_tinybms.py: CRC-16 (Modbus),  *)
(* the read and write request frames, the decoding of the bytes received   *)
(* after a request, and the exchange (flush, send, settle, receive) on one *)
(* serial connection.                                                       *)
(***************************************************************************)
EXTENDS Integers, Sequences, FiniteSets, TLC

VARIABLES
    pc,        \* position of the program (see the actions)
    call,      \* the register call in progress: [kind, addr, val, xid]
    attempt,   \* flush_serial_buffer: rounds of the for loop already made
    rxbuf,     \* the serial input buffer: bytes waiting (ser.in_waiting = Len)
    rxsrc,     \* for each waiting byte, the exchange the device emitted it for
    result,    \* what the last register call returned (see Result)
    response,  \* the bytes ser.read returned to the register call
    frame,     \* the request frame last built
    input,     \* how the bytes delivered to the call were made up (see ParseInput)
    wire,      \* replies the device has made up and not yet delivered, oldest first
    regs,      \* the registers of the device
    tlog,      \* the transport operations of the register call, in order
    cmd,       \* the command the interactive loop is carrying out
    data,      \* crc16_modbus: its argument
    idx,       \* crc16_modbus: bytes of data already consumed
    bit,       \* crc16_modbus: iterations of the inner loop made for this byte
    crc        \* crc16_modbus: the accumulator

crcVars == <<data, idx, bit, crc>>

devVars == <<wire, regs>>

vars ==
    <<pc, call, attempt, rxbuf, rxsrc, result, response, frame, input, wire, regs,
      tlog, cmd, data, idx, bit, crc>>

Byte == 0..255

(***************************************************************************)
(* Python's integer operators, on the non-negative integers the program    *)
(* applies them to.                                                         *)
(***************************************************************************)
RECURSIVE XorBits(_, _)
XorBits(a, b) ==
    IF a = 0 THEN b
    ELSE IF b = 0 THEN a
    ELSE (((a % 2) + (b % 2)) % 2) + 2 * XorBits(a \div 2, b \div 2)

\* a ^ b of two hexadecimal digits, tabulated
XorDigit == [x \in 0..15 |-> [y \in 0..15 |-> XorBits(x, y)]]

\* a ^ b, digit by digit
RECURSIVE Xor(_, _)
Xor(a, b) ==
    IF a = 0 THEN b
    ELSE IF b = 0 THEN a
    ELSE XorDigit[a % 16][b % 16] + 16 * Xor(a \div 16, b \div 16)

RECURSIVE And(_, _)
And(a, b) ==
    IF a = 0 \/ b = 0 THEN 0
    ELSE ((a % 2) * (b % 2)) + 2 * And(a \div 2, b \div 2)

RECURSIVE Or(_, _)
Or(a, b) ==
    IF a = 0 THEN b
    ELSE IF b = 0 THEN a
    ELSE (IF a % 2 = 1 \/ b % 2 = 1 THEN 1 ELSE 0) + 2 * Or(a \div 2, b \div 2)

Shr(a, n) == a \div (2 ^ n)

Shl(a, n) == a * (2 ^ n)

(***************************************************************************)
(* crc16_modbus.                                                            *)
(***************************************************************************)
CrcInit == 65535          \* 0xFFFF

CrcPoly == 40961          \* 0xA001

\* crc ^= byte
CrcXorByte(c, byte) == Xor(c, byte)

\* CrcShift with the polynomial applied before the shift instead of after it
CrcShiftXorFirst(c) ==
    IF And(c, 1) # 0 THEN Shr(Xor(c, CrcPoly), 1) ELSE Shr(c, 1)

\* one iteration of the inner loop
CrcShift(c) ==
    IF And(c, 1) # 0 THEN Xor(Shr(c, 1), CrcPoly) ELSE Shr(c, 1)

\* The loops of crc16_modbus.  The test c < 0 never holds: it makes TLC
\* evaluate the accumulator at each step instead of nesting the steps.
RECURSIVE CrcBits(_, _)
CrcBits(c, n) == IF n = 0 \/ c < 0 THEN c ELSE CrcBits(CrcShift(c), n - 1)

RECURSIVE CrcFrom(_, _, _)
CrcFrom(c, s, i) ==
    IF i > Len(s) \/ c < 0 THEN c
    ELSE CrcFrom(CrcBits(CrcXorByte(c, s[i]), 8), s, i + 1)

crc16_modbus(s) == CrcFrom(CrcInit, s, 1)

(***************************************************************************)
(* The frame builders.                                                      *)
(***************************************************************************)
\* AppendCrc with the trailer written MSB first
AppendCrcMsbFirst(fr) ==
    LET c == crc16_modbus(fr)
    IN  Append(Append(fr, And(Shr(c, 8), 255)), And(c, 255))

AppendCrc(fr) ==
    LET c == crc16_modbus(fr)
    IN  Append(Append(fr, And(c, 255)), And(Shr(c, 8), 255))

\* build_read_frame without the mask of the high address byte
build_read_frame_nomask(address) ==
    AppendCrc(<<170, 9, 2, And(address, 255), Shr(address, 8)>>)

build_read_frame(address) ==
    AppendCrc(<<170, 9, 2, And(address, 255), And(Shr(address, 8), 255)>>)

\* build_write_frame with the value written MSB first
build_write_frame_be(address, value) ==
    AppendCrc(<<170, 13, 4, And(address, 255), And(Shr(address, 8), 255),
                And(Shr(value, 8), 255), And(value, 255)>>)

build_write_frame(address, value) ==
    AppendCrc(<<170, 13, 4, And(address, 255), And(Shr(address, 8), 255),
                And(value, 255), And(Shr(value, 8), 255)>>)

(***************************************************************************)
(* Values of the variables a specification does not use.                   *)
(***************************************************************************)
NoCall == [kind |-> "none", addr |-> 0, val |-> 0, xid |-> 0]

NoResult ==
    [outcome |-> "none", value |-> 0, code |-> 0, error |-> "none",
     ret |-> "none", branch |-> "none", off |-> 0, window |-> <<>>,
     src |-> {}]

NoInput == [tag |-> "none"]

NoRegs == <<>>

NoCmd == [op |-> "none", addr |-> 0, val |-> 0]

(***************************************************************************)
(* Python indexing of a bytes object s: s[i] for i >= 0 counts from the    *)
(* front, for i < 0 from the back, and raises IndexError outside the       *)
(* object; a slice never raises.                                            *)
(***************************************************************************)
PyIn(s, i) == IF i >= 0 THEN i < Len(s) ELSE -i <= Len(s)

PyAt(s, i) == IF i >= 0 THEN s[i + 1] ELSE s[Len(s) + i + 1]

\* s[lo:hi] for 0 <= lo
PySlice(s, lo, hi) == SubSeq(s, lo + 1, IF hi < Len(s) THEN hi ELSE Len(s))

\* what a register call ends with when an index is outside the bytes
Raised ==
    [NoResult EXCEPT !.outcome = "IndexError", !.branch = "IndexError",
                     !.ret = "raise"]

\* body, computed after reading s at the indices of is
Idx(s, is, body) == IF \A i \in is : PyIn(s, i) THEN body ELSE Raised

Res(outcome, branch, ret, w, off) ==
    [NoResult EXCEPT !.outcome = outcome, !.branch = branch, !.ret = ret,
                     !.window = w, !.off = off]

SetMin(S) == CHOOSE i \in S : \A j \in S : i <= j

NoiseThreshold == 100

(***************************************************************************)
(* read_register from the availability check on (lines 100-151).           *)
(***************************************************************************)
\* range(len(response) - 1): the scan running to the last byte
ReadScanRangeWide(resp) == 0..(Len(resp) - 1)

\* range(len(response) - 9)
ReadScanRange(resp) == 0..(Len(resp) - 9 - 1)

\* the indices the condition of line 110 reads at offset i
ScanReads(resp, i) ==
    IF PyIn(resp, i) /\ PyAt(resp, i) = 170 THEN {i, i + 1} ELSE {i}

\* ReadScan keeping the last offset with AA 09
ReadScanLast(resp) ==
    LET rng  == ReadScanRange(resp)
        bad  == {i \in rng : \E j \in ScanReads(resp, i) : ~PyIn(resp, j)}
        hits == {i \in rng \ bad : PyAt(resp, i) = 170 /\ PyAt(resp, i + 1) = 9}
    IN  IF hits \cup bad = {} THEN [tag |-> "none", at |-> 0]
        ELSE IF SetMin(hits \cup bad) \in bad THEN [tag |-> "raise", at |-> 0]
        ELSE [tag |-> "found", at |-> CHOOSE i \in hits : \A j \in hits : j <= i]

\* the for loop of lines 109-116: the first offset with AA 09
ReadScan(resp) ==
    LET rng  == ReadScanRange(resp)
        bad  == {i \in rng : \E j \in ScanReads(resp, i) : ~PyIn(resp, j)}
        hits == {i \in rng \ bad : PyAt(resp, i) = 170 /\ PyAt(resp, i + 1) = 9}
    IN  IF hits \cup bad = {} THEN [tag |-> "none", at |-> 0]
        ELSE IF SetMin(hits \cup bad) \in bad THEN [tag |-> "raise", at |-> 0]
        ELSE [tag |-> "found", at |-> SetMin(hits)]

\* the window of line 112 one byte short
ReadWindowShort(rx, i) == PySlice(rx, i, i + 8)

\* line 112
ReadWindow(rx, i) == PySlice(rx, i, i + 9)

\* received_crc of line 125 with the two trailer bytes taken in the other order
ReceivedCrcSwapped(w) == Or(Shl(PyAt(w, -2), 8), PyAt(w, -1))

\* line 125
ReceivedCrc(w) == Or(Shl(PyAt(w, -1), 8), PyAt(w, -2))

\* ReadInvalid taking two bytes AA 00 as a NACK
ReadInvalidLen2(w, off) ==
    IF Len(w) >= 2
    THEN Idx(w, {0},
           IF PyAt(w, 0) = 170
           THEN Idx(w, {1},
                  IF PyAt(w, 1) = 0
                  THEN IF Len(w) > 2
                       THEN Idx(w, {2},
                              [Res("Nack", "nack", "None", w, off)
                                 EXCEPT !.code = PyAt(w, 2)])
                       ELSE [Res("Nack", "nack", "None", w, off) EXCEPT !.code = 255]
                  ELSE Res("Malformed", "invalid", "None", w, off))
           ELSE Res("Malformed", "invalid", "None", w, off))
    ELSE Res("Malformed", "invalid", "None", w, off)

\* lines 143-148: the response is not a value frame
ReadInvalid(w, off) ==
    IF Len(w) >= 3
    THEN Idx(w, {0},
           IF PyAt(w, 0) = 170
           THEN Idx(w, {1},
                  IF PyAt(w, 1) = 0
                  THEN IF Len(w) > 2
                       THEN Idx(w, {2},
                              [Res("Nack", "nack", "None", w, off)
                                 EXCEPT !.code = PyAt(w, 2)])
                       ELSE [Res("Nack", "nack", "None", w, off) EXCEPT !.code = 255]
                  ELSE Res("Malformed", "invalid", "None", w, off))
           ELSE Res("Malformed", "invalid", "None", w, off))
    ELSE Res("Malformed", "invalid", "None", w, off)

\* ReadValue comparing only the low byte of the two CRCs
ReadValueLowByte(w, off) ==
    Idx(w, {-1, -2},
      IF ReceivedCrc(w) % 256 # crc16_modbus(PySlice(w, 0, Len(w) - 2)) % 256
      THEN Res("Malformed", "crc_mismatch", "None", w, off)
      ELSE Idx(w, {5, 6},
             LET value == Or(Shl(PyAt(w, 6), 8), PyAt(w, 5))
             IN  [Res("Value", "value", value, w, off) EXCEPT !.value = value]))

\* lines 124-142: the header matched
ReadValue(w, off) ==
    Idx(w, {-1, -2},
      IF ReceivedCrc(w) # crc16_modbus(PySlice(w, 0, Len(w) - 2))
      THEN Res("Malformed", "crc_mismatch", "None", w, off)
      ELSE Idx(w, {5, 6},
             LET value == Or(Shl(PyAt(w, 6), 8), PyAt(w, 5))
             IN  [Res("Value", "value", value, w, off) EXCEPT !.value = value]))

\* lines 123-148
ReadVerify(w, off) ==
    IF Len(w) >= 9
    THEN Idx(w, {0},
           IF PyAt(w, 0) = 170
           THEN Idx(w, {1},
                  IF PyAt(w, 1) = 9 THEN ReadValue(w, off) ELSE ReadInvalid(w, off))
           ELSE ReadInvalid(w, off))
    ELSE ReadInvalid(w, off)

\* read_response with the availability check of line 100 as in_waiting > 1
read_response_gt1(rx) ==
    IF Len(rx) > 1
    THEN IF Len(rx) > NoiseThreshold
         THEN LET sc == ReadScan(rx)
              IN  CASE sc.tag = "raise" -> Raised
                    [] sc.tag = "none" ->
                         Res("Malformed", "no_signature", "None", <<>>, 0)
                    [] sc.tag = "found" ->
                         ReadVerify(ReadWindow(rx, sc.at), sc.at)
         ELSE ReadVerify(rx, 0)
    ELSE Res("Timeout", "timeout", "None", <<>>, 0)

\* lines 100-151; rx: the bytes waiting at the availability check
read_response(rx) ==
    IF Len(rx) > 0
    THEN IF Len(rx) > NoiseThreshold
         THEN LET sc == ReadScan(rx)
              IN  CASE sc.tag = "raise" -> Raised
                    [] sc.tag = "none" ->
                         Res("Malformed", "no_signature", "None", <<>>, 0)
                    [] sc.tag = "found" ->
                         ReadVerify(ReadWindow(rx, sc.at), sc.at)
         ELSE ReadVerify(rx, 0)
    ELSE Res("Timeout", "timeout", "None", <<>>, 0)

(***************************************************************************)
(* write_register from the availability check on (lines 176-220).          *)
(***************************************************************************)
\* the keys of error_messages (lines 206-213), under the names of the error
\* codes; .get(error_code, 'Unknown')
ErrorName(code) ==
    CASE code = 1 -> "InvalidAddress"
      [] code = 2 -> "ReadOnly"
      [] code = 3 -> "OutOfRange"
      [] code = 4 -> "CrcError"
      [] OTHER -> "Unknown"

\* range(len(response) - 3)
WriteScanRange(resp) == 0..(Len(resp) - 3 - 1)

\* the for loop of lines 185-192: the first offset with AA 01 or AA 00
WriteScan(resp) ==
    LET rng  == WriteScanRange(resp)
        bad  == {i \in rng : \E j \in ScanReads(resp, i) : ~PyIn(resp, j)}
        hits == {i \in rng \ bad :
                   PyAt(resp, i) = 170 /\ (PyAt(resp, i + 1) = 1 \/ PyAt(resp, i + 1) = 0)}
    IN  IF hits \cup bad = {} THEN [tag |-> "none", at |-> 0]
        ELSE IF SetMin(hits \cup bad) \in bad THEN [tag |-> "raise", at |-> 0]
        ELSE [tag |-> "found", at |-> SetMin(hits)]

\* WriteNack taking the error code at offset 2, as read_register does
WriteNackOffset2(w, off) ==
    LET nack(code) ==
            [Res("Nack", "nack", "False", w, off)
               EXCEPT !.code = code, !.error = ErrorName(code)]
    IN  IF Len(w) > 2 THEN Idx(w, {2}, nack(PyAt(w, 2))) ELSE nack(255)

\* lines 203-214
WriteNack(w, off) ==
    LET nack(code) ==
            [Res("Nack", "nack", "False", w, off)
               EXCEPT !.code = code, !.error = ErrorName(code)]
    IN  IF Len(w) > 3 THEN Idx(w, {3}, nack(PyAt(w, 3))) ELSE nack(255)

\* WriteVerify accepting a response of 2 bytes
WriteVerifyLen2(w, off) ==
    IF Len(w) >= 2
    THEN Idx(w, {0},
           IF PyAt(w, 0) = 170
           THEN Idx(w, {1},
                  IF PyAt(w, 1) = 1 THEN Res("Ack", "ack", "True", w, off)
                  ELSE IF PyAt(w, 1) = 0 THEN WriteNack(w, off)
                  ELSE Res("Malformed", "fallthrough", "None", w, off))
           ELSE Res("Malformed", "invalid", "False", w, off))
    ELSE Res("Malformed", "invalid", "False", w, off)

\* lines 199-217; with a second byte that is neither 01 nor 00 no branch
\* returns and the function ends, returning None
WriteVerify(w, off) ==
    IF Len(w) >= 3
    THEN Idx(w, {0},
           IF PyAt(w, 0) = 170
           THEN Idx(w, {1},
                  IF PyAt(w, 1) = 1 THEN Res("Ack", "ack", "True", w, off)
                  ELSE IF PyAt(w, 1) = 0 THEN WriteNack(w, off)
                  ELSE Res("Malformed", "fallthrough", "None", w, off))
           ELSE Res("Malformed", "invalid", "False", w, off))
    ELSE Res("Malformed", "invalid", "False", w, off)

\* lines 176-220
write_response(rx) ==
    IF Len(rx) > 0
    THEN IF Len(rx) > NoiseThreshold
         THEN LET sc == WriteScan(rx)
              IN  CASE sc.tag = "raise" -> Raised
                    [] sc.tag = "none" ->
                         Res("Malformed", "no_signature", "False", <<>>, 0)
                    [] sc.tag = "found" ->
                         WriteVerify(PySlice(rx, sc.at, sc.at + 5), sc.at)
         ELSE WriteVerify(rx, 0)
    ELSE Res("Timeout", "timeout", "False", <<>>, 0)

\* the exchanges whose bytes the decoded window holds
WithSrc(r, src) ==
    [r EXCEPT !.src = {src[k] : k \in (r.off + 1)..(r.off + Len(r.window))}]

\* how many times the transport operation op stands in the log t
Count(t, op) == Cardinality({i \in DOMAIN t : t[i] = op})

\* ReadResponse going back to line 93 once when no byte is waiting
ReadResponseRetry ==
    /\ pc = "recv"
    /\ call.kind = "read"
    /\ response' = rxbuf
    /\ result' = WithSrc(read_response(rxbuf), rxsrc)
    /\ rxbuf' = <<>>
    /\ rxsrc' = <<>>
    /\ pc' = IF Len(rxbuf) = 0 /\ Count(tlog, "write") < 2 THEN "send" ELSE "returned"
    /\ tlog' = tlog \o (IF Len(rxbuf) > 0 THEN <<"in_waiting", "read">>
                        ELSE <<"in_waiting">>)
    /\ UNCHANGED <<call, attempt, frame, input, cmd, devVars, crcVars>>

\* read_register, lines 100-151: one availability check, one read, decoding
ReadResponse ==
    /\ pc = "recv"
    /\ call.kind = "read"
    /\ response' = rxbuf
    /\ result' = WithSrc(read_response(rxbuf), rxsrc)
    /\ rxbuf' = <<>>
    /\ rxsrc' = <<>>
    /\ pc' = "returned"
    /\ tlog' = tlog \o (IF Len(rxbuf) > 0 THEN <<"in_waiting", "read">>
                        ELSE <<"in_waiting">>)
    /\ UNCHANGED <<call, attempt, frame, input, cmd, devVars, crcVars>>

\* write_register, lines 176-220
WriteResponse ==
    /\ pc = "recv"
    /\ call.kind = "write"
    /\ response' = rxbuf
    /\ result' = WithSrc(write_response(rxbuf), rxsrc)
    /\ rxbuf' = <<>>
    /\ rxsrc' = <<>>
    /\ pc' = "returned"
    /\ tlog' = tlog \o (IF Len(rxbuf) > 0 THEN <<"in_waiting", "read">>
                        ELSE <<"in_waiting">>)
    /\ UNCHANGED <<call, attempt, frame, input, cmd, devVars, crcVars>>

(***************************************************************************)
(* crc16_modbus, statement by statement.  pc = "crc_byte": at the head of  *)
(* the loop over data; "crc_bit": at the head of the loop of 8; "crc_done":*)
(* returned, the value in crc.                                              *)
(***************************************************************************)
MaxCrcLen == 3

CrcAlphabet == {0, 1, 128, 170, 255}

RECURSIVE SeqsUpTo(_, _)
SeqsUpTo(S, n) ==
    IF n = 0 THEN {<<>>}
    ELSE LET shorter == SeqsUpTo(S, n - 1)
         IN  shorter \cup {Append(s, x) : s \in {t \in shorter : Len(t) = n - 1}, x \in S}

\* "123456789" in ASCII, the check input of the CRC catalogues
CheckString == <<49, 50, 51, 52, 53, 54, 55, 56, 57>>

CrcInputs == SeqsUpTo(CrcAlphabet, MaxCrcLen) \cup {CheckString}

CrcInitState ==
    /\ pc = "crc_byte"
    /\ data \in CrcInputs
    /\ idx = 0
    /\ bit = 0
    /\ crc = CrcInit
    /\ call = NoCall
    /\ attempt = 0
    /\ rxbuf = <<>>
    /\ rxsrc = <<>>
    /\ result = NoResult
    /\ response = <<>>
    /\ input = NoInput
    /\ wire = <<>>
    /\ regs = NoRegs
    /\ tlog = <<>>
    /\ cmd = NoCmd
    /\ frame = <<>>

CrcTakeByte ==
    /\ pc = "crc_byte"
    /\ idx < Len(data)
    /\ crc' = CrcXorByte(crc, data[idx + 1])
    /\ bit' = 0
    /\ pc' = "crc_bit"
    /\ UNCHANGED <<call, attempt, rxbuf, rxsrc, result, response, frame, input, data, idx>>
    /\ UNCHANGED <<wire, regs, tlog, cmd>>

CrcBitStep ==
    /\ pc = "crc_bit"
    /\ bit < 8
    /\ crc' = CrcShift(crc)
    /\ IF bit + 1 = 8
       THEN /\ bit' = 0
            /\ idx' = idx + 1
            /\ pc' = "crc_byte"
       ELSE /\ bit' = bit + 1
            /\ UNCHANGED <<idx, pc>>
    /\ UNCHANGED <<call, attempt, rxbuf, rxsrc, result, response, frame, input, data>>
    /\ UNCHANGED <<wire, regs, tlog, cmd>>

CrcReturn ==
    /\ pc = "crc_byte"
    /\ idx = Len(data)
    /\ pc' = "crc_done"
    /\ UNCHANGED <<call, attempt, rxbuf, rxsrc, result, response, frame, input, data, idx, bit, crc>>
    /\ UNCHANGED <<wire, regs, tlog, cmd>>

CrcNext == CrcTakeByte \/ CrcBitStep \/ CrcReturn

SpecCrc == CrcInitState /\ [][CrcNext]_vars

(***************************************************************************)
(* The Modbus CRC-16 recurrence on a register of 16 bits, bit 0 the lowest:*)
(* what C9 compares the accumulator of crc16_modbus with.                  *)
(***************************************************************************)
BitOf(n, i) == (n \div (2 ^ i)) % 2 = 1

RECURSIVE RegValue(_, _)
RegValue(r, i) ==
    IF i > 15 THEN 0 ELSE (IF r[i] THEN 2 ^ i ELSE 0) + RegValue(r, i + 1)

RegOnes == [i \in 0..15 |-> TRUE]

RegXorLow(r, byte) ==
    [i \in 0..15 |-> IF i < 8 THEN r[i] # BitOf(byte, i) ELSE r[i]]

RegShift(r) ==
    LET sh == [i \in 0..15 |-> IF i < 15 THEN r[i + 1] ELSE FALSE]
    IN  IF r[0] THEN [i \in 0..15 |-> IF i \in {0, 13, 15} THEN ~sh[i] ELSE sh[i]]
        ELSE sh

\* (the comparison with the empty register has r computed before the next
\* shift is applied to it)
RECURSIVE RegShifts(_, _)
RegShifts(r, n) == IF n = 0 \/ r = <<>> THEN r ELSE RegShifts(RegShift(r), n - 1)

RECURSIVE RegAfter(_, _)
RegAfter(s, n) ==
    IF n = 0 THEN RegOnes
    ELSE RegShifts(RegXorLow(RegAfter(s, n - 1), s[n]), 8)

\* the register where crc16_modbus stands
RegHere ==
    IF pc = "crc_bit"
    THEN RegShifts(RegXorLow(RegAfter(data, idx), data[idx + 1]), bit)
    ELSE RegAfter(data, idx)

InCrc == pc \in {"crc_byte", "crc_bit", "crc_done"}

\* C9: at every statement of crc16_modbus the accumulator is a 16-bit value
\* and equals the register of the Modbus recurrence (start at all ones, xor
\* the byte into the low 8 bits, then 8 times shift right and xor 0xA001
\* exactly when the bit shifted out was 1); the value returned is that
\* register after the last byte, 0xFFFF for the empty sequence and 0x4B37 for
\* the check input "123456789".
C9_CrcRecurrence ==
    InCrc =>
        /\ crc \in 0..65535
        /\ crc = RegValue(RegHere, 0)
        /\ (pc = "crc_done" => idx = Len(data) /\ crc = crc16_modbus(data))
        /\ (pc = "crc_done" /\ data = <<>> => crc = 65535)
        /\ (pc = "crc_done" /\ data = CheckString => crc = 19255)

\* C9 witness: the check input has been consumed and 0x4B37 returned
C9_Witness == pc = "crc_done" /\ data = CheckString /\ crc = 19255

(***************************************************************************)
(* The frame builders applied to the integers the callers pass: the        *)
(* registers of main, and what int(text, 0) of the interactive loop gives. *)
(***************************************************************************)
AddrSamples ==
    {0, 1, 100, 255, 256, 300, 343, 32768, 43981, 65535, 65536, 65879, -1}

ValSamples == {0, 1, 100, 255, 256, 4200, 32768, 65535, 65536, 69736, -1}

BuildCalls ==
    {[kind |-> "read", addr |-> a, val |-> 0, xid |-> 0] : a \in AddrSamples}
    \cup {[kind |-> "write", addr |-> a, val |-> v, xid |-> 0] :
            a \in AddrSamples, v \in ValSamples}

BuildInit ==
    /\ pc = "build"
    /\ call \in BuildCalls
    /\ frame = <<>>
    /\ attempt = 0
    /\ rxbuf = <<>>
    /\ rxsrc = <<>>
    /\ result = NoResult
    /\ response = <<>>
    /\ input = NoInput
    /\ wire = <<>>
    /\ regs = NoRegs
    /\ tlog = <<>>
    /\ cmd = NoCmd
    /\ data = <<>>
    /\ idx = 0
    /\ bit = 0
    /\ crc = CrcInit

BuildReadFrame ==
    /\ pc = "build"
    /\ call.kind = "read"
    /\ frame' = build_read_frame(call.addr)
    /\ pc' = "built"
    /\ UNCHANGED <<call, attempt, rxbuf, rxsrc, result, response, input, data, idx, bit, crc>>
    /\ UNCHANGED <<wire, regs, tlog, cmd>>

BuildWriteFrame ==
    /\ pc = "build"
    /\ call.kind = "write"
    /\ frame' = build_write_frame(call.addr, call.val)
    /\ pc' = "built"
    /\ UNCHANGED <<call, attempt, rxbuf, rxsrc, result, response, input, data, idx, bit, crc>>
    /\ UNCHANGED <<wire, regs, tlog, cmd>>

BuildNext == BuildReadFrame \/ BuildWriteFrame

SpecBuild == BuildInit /\ [][BuildNext]_vars

U16 == 0..65535

\* C7: for a 16-bit address a, build_read_frame(a) has 7 bytes:
\* AA 09 02, a mod 256, a div 256, then the CRC of those 5 bytes, low byte
\* first (AA 09 02 57 01 61 B4 for address 0x0157).
C7_ReadFrameLayout ==
    (pc = "built" /\ call.kind = "read" /\ call.addr \in U16) =>
        LET c == crc16_modbus(SubSeq(frame, 1, 5))
        IN  /\ Len(frame) = 7
            /\ frame = <<170, 9, 2, call.addr % 256, call.addr \div 256,
                         c % 256, c \div 256>>
            /\ \A i \in 1..7 : frame[i] \in Byte
            /\ (call.addr = 343 => frame = <<170, 9, 2, 87, 1, 97, 180>>)

\* C7 witness: the read frame of register 0x0157 has been built
C7_Witness ==
    pc = "built" /\ call.kind = "read" /\ call.addr = 343 /\ Len(frame) = 7

\* C8: for a 16-bit address a and value v, build_write_frame(a, v) has 9
\* bytes: AA 0D 04, a mod 256, a div 256, v mod 256, v div 256, then the CRC
\* of those 7 bytes, low byte first.
C8_WriteFrameLayout ==
    (pc = "built" /\ call.kind = "write" /\ call.addr \in U16 /\ call.val \in U16) =>
        LET c == crc16_modbus(SubSeq(frame, 1, 7))
        IN  /\ Len(frame) = 9
            /\ frame = <<170, 13, 4, call.addr % 256, call.addr \div 256,
                         call.val % 256, call.val \div 256, c % 256, c \div 256>>
            /\ \A i \in 1..9 : frame[i] \in Byte

\* C8 witness: the write frame of register 0x012C, value 4200, has been built
C8_Witness ==
    /\ pc = "built" /\ call.kind = "write" /\ call.addr = 300 /\ call.val = 4200
    /\ Len(frame) = 9 /\ frame[6] = 104 /\ frame[7] = 16

(***************************************************************************)
(* The register calls at their availability check, for the bytes the       *)
(* transport may hold there.  A device reply is AA 09 02 addr value crc    *)
(* to a read, AA 01 cmd crc (ACK) or AA 00 cmd error crc (NACK) otherwise; *)
(* debug output of the device may surround it or stand alone.              *)
(***************************************************************************)
MaxShortLen == 4

ShortAlphabet == {0, 1, 3, 9, 170}

ReadReply(a, v) == AppendCrc(<<170, 9, 2, a % 256, a \div 256, v % 256, v \div 256>>)

AckReply(command) == AppendCrc(<<170, 1, command>>)

NackReply(command, err) == AppendCrc(<<170, 0, command, err>>)

ReplyAddrs == {343, 300}

ReplyVals == {0, 100, 4200, 65535}

ValueFrames == {ReadReply(a, v) : a \in ReplyAddrs, v \in ReplyVals}

CorruptedFrames == {ReadReply(343, 100), ReadReply(300, 4200)}

OtherReplies ==
    {AckReply(13)} \cup {NackReply(c, e) : c \in {9, 13}, e \in {1, 2, 3, 4, 7, 255}}

\* n bytes of debug output: ASCII text, or bytes that look like frame starts
Filler(kind, n) ==
    LET cycle == CASE kind = "text" -> <<68, 66, 71, 32>>
                   [] kind = "aa" -> <<170>>
                   [] kind = "mix" -> <<170, 0, 9, 1>>
                   [] kind = "sig" -> <<170, 9>>
    IN  [i \in 1..n |-> cycle[((i - 1) % Len(cycle)) + 1]]

FillerKinds == {"text", "aa", "mix", "sig"}

PreLens == {0, 1, 40, 92, 95}

PostLens == {0, 1, 2, 3, 60, 101}

\* a reply with its CRC trailer damaged
BadCrc(f) == [f EXCEPT ![Len(f)] = (f[Len(f)] + 1) % 256]

NoiseCores ==
    {<<>>, <<170, 9>>, <<170, 1>>, <<170, 0>>,
     ReadReply(343, 100), BadCrc(ReadReply(343, 100)),
     BadCrc(ReadReply(343, 100)) \o ReadReply(343, 4200),
     AckReply(13), NackReply(13, 3)}

\* the ways the bytes waiting at the availability check are made up
ParseInput(in) ==
    \/ \E b \in SeqsUpTo(ShortAlphabet, MaxShortLen) :
           in = [tag |-> "short", bytes |-> b]
    \/ \E f \in ValueFrames \cup OtherReplies :
           in = [tag |-> "reply", bytes |-> f]
    \/ \E f \in CorruptedFrames, p \in 0..8, b \in Byte :
           in = [tag |-> "corrupt", bytes |-> [f EXCEPT ![p + 1] = b],
                 of |-> f, pos |-> p]
    \/ \E k1 \in FillerKinds, n1 \in PreLens, c \in NoiseCores,
          k2 \in FillerKinds, n2 \in PostLens :
           in = [tag |-> "noise", bytes |-> Filler(k1, n1) \o c \o Filler(k2, n2),
                 at |-> n1, core |-> c]

ParseInit ==
    /\ pc = "recv"
    /\ ParseInput(input)
    /\ call \in {[kind |-> "read", addr |-> 343, val |-> 0, xid |-> 0],
                 [kind |-> "write", addr |-> 300, val |-> 4200, xid |-> 0]}
    /\ rxbuf = input.bytes
    /\ rxsrc = [i \in 1..Len(input.bytes) |-> 0]
    /\ attempt = 0
    /\ result = NoResult
    /\ response = <<>>
    /\ wire = <<>>
    /\ regs = NoRegs
    /\ tlog = <<>>
    /\ cmd = NoCmd
    /\ frame = IF call.kind = "read" THEN build_read_frame(call.addr)
               ELSE build_write_frame(call.addr, call.val)
    /\ data = <<>>
    /\ idx = 0
    /\ bit = 0
    /\ crc = CrcInit

ParseNext == ReadResponse \/ WriteResponse

SpecParse == ParseInit /\ [][ParseNext]_vars

Returned(kind) == pc = "returned" /\ call.kind = kind

\* AA 09 02, four bytes, and the CRC of those 7 bytes, low byte first
IsValueFrame(r) ==
    /\ Len(r) = 9
    /\ r[1] = 170 /\ r[2] = 9 /\ r[3] = 2
    /\ LET c == crc16_modbus(SubSeq(r, 1, 7))
       IN  r[8] = c % 256 /\ r[9] = c \div 256

\* C1: when the bytes read_register receives are exactly a read reply AA 09
\* 02 a_lsb a_msb v_lsb v_msb crc_lsb crc_msb, crc the CRC of its first 7
\* bytes, it returns Value(v), v = v_msb * 256 + v_lsb; AA 09 02 57 01 64 00
\* 03 27 gives Value(100).
C1_ReadRoundTrip ==
    (Returned("read") /\ IsValueFrame(response)) =>
        /\ result.outcome = "Value"
        /\ result.value = response[7] * 256 + response[6]
        /\ result.ret = result.value
        /\ (response = <<170, 9, 2, 87, 1, 100, 0, 3, 39>> => result.value = 100)

\* C1 witness: the reply to register 0x0157 with value bytes 64 00 was decoded
C1_Witness ==
    /\ Returned("read")
    /\ response = <<170, 9, 2, 87, 1, 100, 0, 3, 39>>
    /\ result.outcome = "Value" /\ result.value = 100

\* a valid read reply with one byte changed, received by read_register
CorruptedReceived ==
    /\ Returned("read")
    /\ input.tag = "corrupt"
    /\ input.bytes # input.of
    /\ response = input.bytes
    /\ ~IsValueFrame(response)

\* C3 as stated: a valid read reply with any one byte changed makes
\* read_register return Malformed through the CRC mismatch branch.
C3_Original ==
    CorruptedReceived =>
        result.outcome = "Malformed" /\ result.branch = "crc_mismatch"

\* C3 amended: a valid read reply with one byte changed never gives Value;
\* a change at offsets 2..8 gives Malformed through the CRC mismatch branch;
\* a change of byte 0, or of byte 1 to a value other than 00, gives Malformed
\* through the invalid-response branch, without a CRC check; byte 1 changed
\* to 00 gives Nack with the byte at offset 2 as the error code.
C3_Amended ==
    CorruptedReceived =>
        /\ result.outcome # "Value"
        /\ result.ret = "None"
        /\ input.pos >= 2 =>
               result.outcome = "Malformed" /\ result.branch = "crc_mismatch"
        /\ (input.pos = 0 \/ (input.pos = 1 /\ response[2] # 0)) =>
               result.outcome = "Malformed" /\ result.branch = "invalid"
        /\ (input.pos = 1 /\ response[2] = 0) =>
               result.outcome = "Nack" /\ result.code = response[3]

\* C3 witness: the last CRC byte of a reply was changed and the CRC check
\* refused it
C3_Witness ==
    CorruptedReceived /\ input.pos = 8 /\ result.branch = "crc_mismatch"

\* C4 as stated: AA 00 03 received by write_register gives Nack(OutOfRange),
\* error code 03.
C4_Original ==
    (Returned("write") /\ response = <<170, 0, 3>>) =>
        result.outcome = "Nack" /\ result.code = 3 /\ result.error = "OutOfRange"

\* C4 amended: AA 00 03 received by write_register gives Nack(Unknown), error
\* code FF: the code is read at offset 3, which 3 bytes do not have; a 4-byte
\* AA 00 x 03 gives Nack(OutOfRange), error code 03.
C4_Amended ==
    /\ (Returned("write") /\ response = <<170, 0, 3>>) =>
           /\ result.outcome = "Nack" /\ result.code = 255
           /\ result.error = "Unknown" /\ result.ret = "False"
    /\ (Returned("write") /\ Len(response) = 4 /\ response[1] = 170
        /\ response[2] = 0 /\ response[4] = 3) =>
           /\ result.outcome = "Nack" /\ result.code = 3
           /\ result.error = "OutOfRange" /\ result.ret = "False"

\* C4 witness: AA 00 03 was received and reported with error code FF
C4_Witness ==
    Returned("write") /\ response = <<170, 0, 3>> /\ result.code = 255

\* C5 as stated: AA 01 received by write_register gives Ack.
C5_Original ==
    (Returned("write") /\ response = <<170, 1>>) =>
        result.outcome = "Ack" /\ result.ret = "True"

\* C5 amended: AA 01 received by write_register gives Malformed (it returns
\* False): an Ack needs at least 3 bytes, and AA 01 x gives Ack for any x.
C5_Amended ==
    /\ (Returned("write") /\ response = <<170, 1>>) =>
           /\ result.outcome = "Malformed" /\ result.branch = "invalid"
           /\ result.ret = "False"
    /\ (Returned("write") /\ Len(response) = 3 /\ response[1] = 170
        /\ response[2] = 1) =>
           result.outcome = "Ack" /\ result.ret = "True"

\* C5 witness: AA 01 was received and refused
C5_Witness ==
    Returned("write") /\ response = <<170, 1>> /\ result.outcome = "Malformed"

\* the offsets of r where AA 09 stands
SigOffsets(r) == {j \in 0..(Len(r) - 2) : r[j + 1] = 170 /\ r[j + 2] = 9}

\* r holds a valid read reply at offset k, bytes before and after it, and no
\* AA 09 before it
EmbeddedAt(r, k) ==
    /\ k >= 1
    /\ k + 9 < Len(r)
    /\ IsValueFrame(SubSeq(r, k + 1, k + 9))
    /\ \A j \in SigOffsets(r) : j >= k

\* C6: when read_register receives more than 100 bytes that hold a valid
\* read reply at some offset, at least one byte before it and one after it,
\* and no AA 09 at an earlier offset, it returns the Value of that reply.
C6_NoiseRecovery ==
    (Returned("read") /\ Len(response) > 100 /\ SigOffsets(response) # {}) =>
        LET k == SetMin(SigOffsets(response))
        IN  EmbeddedAt(response, k) =>
                /\ result.outcome = "Value"
                /\ result.value = response[k + 7] * 256 + response[k + 6]
                /\ result.ret = result.value
                /\ result.off = k
                /\ result.window = SubSeq(response, k + 1, k + 9)

\* C6 witness: 150 bytes with the reply at offset 40 were received and the
\* value 100 decoded
C6_Witness ==
    /\ Returned("read")
    /\ Len(response) = 150
    /\ EmbeddedAt(response, 40)
    /\ result.outcome = "Value" /\ result.value = 100

Outcomes == {"Value", "Ack", "Nack", "Malformed", "Timeout"}

\* C10: whatever bytes the transport delivers, read_register and
\* write_register return: an outcome of the five, as None or the value for a
\* read and True, False or None for a write; no index is read outside the
\* bytes, and the window decoded lies inside the received bytes.
C10_ErrorsAreData ==
    /\ pc = "returned" =>
           /\ result.outcome \in Outcomes
           /\ result.branch # "IndexError"
           /\ call.kind = "read" =>
                  IF result.outcome = "Value" THEN result.ret \in U16
                  ELSE result.ret = "None"
           /\ call.kind = "write" => result.ret \in {"True", "False", "None"}
           /\ result.off >= 0
           /\ result.off + Len(result.window) <= Len(response)
           /\ result.window =
                  SubSeq(response, result.off + 1, result.off + Len(result.window))
           /\ Len(response) = 0 <=> result.outcome = "Timeout"

\* C10 witness: more than 100 bytes ending in AA, with no signature before,
\* were received and refused
C10_Witness ==
    /\ pc = "returned"
    /\ Len(response) > 100
    /\ response[Len(response)] = 170
    /\ result.branch = "no_signature"

(***************************************************************************)
(* The interactive loop on one connection, with the device at the other    *)
(* end of the line.  The program stands at "prompt" (line 238), inside a   *)
(* register call at "flush_reset" (line 63), "flush_check" (line 65, after *)
(* the wait), "flush_final" (line 74, after the final wait), "send" (line  *)
(* 93), "recv" (line 100, after the settle wait), "returned" (the call has *)
(* returned to line 256, 266 or 270), or at "quit".  The device answers a  *)
(* request when it likes, or not at all, and may emit debug text.          *)
(***************************************************************************)
MaxExchanges == 2

FlushMaxAttempts == 5

DevAddrs == {343, 300}

DevVals == {4200}

\* The positions inside a register call.  Bytes that arrive between two calls
\* wait in the input buffer until the next call's first reset_input_buffer:
\* they are the bytes that arrive at "flush_reset".
CallPcs == {"flush_reset", "flush_check", "flush_final", "send", "recv"}

DebugChunks == {Filler("text", 3), Filler("text", 101)}

Init ==
    /\ pc = "prompt"
    /\ call = NoCall
    /\ cmd = NoCmd
    /\ attempt = 0
    /\ rxbuf = <<>>
    /\ rxsrc = <<>>
    /\ result = NoResult
    /\ response = <<>>
    /\ frame = <<>>
    /\ input = NoInput
    /\ wire = <<>>
    /\ regs = [a \in DevAddrs |-> IF a = 343 THEN 100 ELSE 4200]
    /\ tlog = <<>>
    /\ data = <<>>
    /\ idx = 0
    /\ bit = 0
    /\ crc = CrcInit

\* read_register lines 78-90, write_register lines 153-166: the frame is
\* built and flush_serial_buffer entered
StartCall(kind, a, v) ==
    /\ call' = [kind |-> kind, addr |-> a, val |-> v, xid |-> call.xid + 1]
    /\ frame' = IF kind = "read" THEN build_read_frame(a) ELSE build_write_frame(a, v)
    /\ attempt' = 0
    /\ tlog' = <<>>
    /\ result' = NoResult
    /\ response' = <<>>
    /\ pc' = "flush_reset"

\* lines 238-256: r <addr>
CmdRead ==
    /\ pc = "prompt"
    /\ call.xid < MaxExchanges
    /\ \E a \in DevAddrs :
          /\ cmd' = [op |-> "r", addr |-> a, val |-> 0]
          /\ StartCall("read", a, 0)
    /\ UNCHANGED <<rxbuf, rxsrc, input, devVars, crcVars>>

\* lines 238-266: w <addr> <val>
CmdWrite ==
    /\ pc = "prompt"
    /\ call.xid < MaxExchanges
    /\ \E a \in DevAddrs, v \in DevVals :
          /\ cmd' = [op |-> "w", addr |-> a, val |-> v]
          /\ StartCall("write", a, v)
    /\ UNCHANGED <<rxbuf, rxsrc, input, devVars, crcVars>>

\* lines 240-241: q
CmdQuit ==
    /\ pc = "prompt"
    /\ pc' = "quit"
    /\ UNCHANGED <<call, cmd, attempt, rxbuf, rxsrc, result, response, frame, input,
                   tlog, devVars, crcVars>>

\* flush_serial_buffer lines 63-64: reset_input_buffer, then the wait
FlushReset ==
    /\ pc = "flush_reset"
    /\ rxbuf' = <<>>
    /\ rxsrc' = <<>>
    /\ tlog' = Append(tlog, "reset_input_buffer")
    /\ pc' = "flush_check"
    /\ UNCHANGED <<call, cmd, attempt, result, response, frame, input, devVars, crcVars>>

\* FlushCheck looping for as long as bytes are waiting
FlushCheckUnbounded ==
    /\ pc = "flush_check"
    /\ IF Len(rxbuf) > 0
       THEN /\ rxbuf' = <<>>
            /\ rxsrc' = <<>>
            /\ tlog' = tlog \o <<"in_waiting", "read">>
            /\ attempt' = attempt + 1
            /\ pc' = "flush_reset"
       ELSE /\ tlog' = Append(tlog, "in_waiting")
            /\ pc' = "flush_final"
            /\ UNCHANGED <<rxbuf, rxsrc, attempt>>
    /\ UNCHANGED <<call, cmd, result, response, frame, input, devVars, crcVars>>

\* flush_serial_buffer lines 65-70, and line 62 for the next round
FlushCheck ==
    /\ pc = "flush_check"
    /\ IF Len(rxbuf) > 0
       THEN /\ rxbuf' = <<>>
            /\ rxsrc' = <<>>
            /\ tlog' = tlog \o <<"in_waiting", "read">>
            /\ attempt' = attempt + 1
            /\ pc' = IF attempt + 1 < FlushMaxAttempts THEN "flush_reset"
                     ELSE "flush_final"
       ELSE /\ tlog' = Append(tlog, "in_waiting")
            /\ pc' = "flush_final"
            /\ UNCHANGED <<rxbuf, rxsrc, attempt>>
    /\ UNCHANGED <<call, cmd, result, response, frame, input, devVars, crcVars>>

\* flush_serial_buffer lines 73-76, after the final wait
FlushFinal ==
    /\ pc = "flush_final"
    /\ IF Len(rxbuf) > 0
       THEN /\ rxbuf' = <<>>
            /\ rxsrc' = <<>>
            /\ tlog' = tlog \o <<"in_waiting", "read">>
       ELSE /\ tlog' = Append(tlog, "in_waiting")
            /\ UNCHANGED <<rxbuf, rxsrc>>
    /\ pc' = "send"
    /\ UNCHANGED <<call, cmd, attempt, result, response, frame, input, devVars, crcVars>>

\* what the device makes of a request: the value of the register for a
\* read; for a write an ACK with the register set, a NACK, or nothing
DeviceAnswers(c) ==
    IF c.kind = "read"
    THEN {[reply |-> <<[xid |-> c.xid, bytes |-> ReadReply(c.addr, regs[c.addr])]>>,
           regs |-> regs]}
    ELSE {[reply |-> <<[xid |-> c.xid, bytes |-> AckReply(13)]>>,
           regs |-> [regs EXCEPT ![c.addr] = c.val]],
          [reply |-> <<[xid |-> c.xid, bytes |-> NackReply(13, 3)]>>, regs |-> regs],
          [reply |-> <<>>, regs |-> regs]}

\* SendFrame followed by a reset_input_buffer
SendFrameThenReset ==
    /\ pc = "send"
    /\ tlog' = tlog \o <<"write", "flush", "reset_input_buffer">>
    /\ \E d \in DeviceAnswers(call) :
          /\ wire' = wire \o d.reply
          /\ regs' = d.regs
    /\ rxbuf' = <<>>
    /\ rxsrc' = <<>>
    /\ pc' = "recv"
    /\ UNCHANGED <<call, cmd, attempt, result, response, frame, input, crcVars>>

\* read_register lines 93-97, write_register lines 169-173: the frame is
\* written and flushed, then the settle wait
SendFrame ==
    /\ pc = "send"
    /\ tlog' = tlog \o <<"write", "flush">>
    /\ \E d \in DeviceAnswers(call) :
          /\ wire' = wire \o d.reply
          /\ regs' = d.regs
    /\ pc' = "recv"
    /\ UNCHANGED <<call, cmd, attempt, rxbuf, rxsrc, result, response, frame, input,
                   crcVars>>

\* a reply reaches the input buffer of the program
DeviceDeliver ==
    /\ pc \in CallPcs
    /\ wire # <<>>
    /\ rxbuf' = rxbuf \o Head(wire).bytes
    /\ rxsrc' = rxsrc \o [i \in 1..Len(Head(wire).bytes) |-> Head(wire).xid]
    /\ wire' = Tail(wire)
    /\ UNCHANGED <<pc, call, cmd, attempt, result, response, frame, input, regs, tlog,
                   crcVars>>

\* debug text of the device reaches the input buffer (one chunk waiting at a
\* time)
DeviceDebug ==
    /\ pc \in CallPcs
    /\ \A i \in 1..Len(rxsrc) : rxsrc[i] # 0
    /\ \E chunk \in DebugChunks :
          /\ rxbuf' = rxbuf \o chunk
          /\ rxsrc' = rxsrc \o [i \in 1..Len(chunk) |-> 0]
    /\ UNCHANGED <<pc, call, cmd, attempt, result, response, frame, input, devVars,
                   tlog, crcVars>>

\* VerifyRead after a write, whatever it returned
VerifyReadAlways ==
    /\ pc = "returned"
    /\ cmd.op = "w" /\ call.kind = "write"
    /\ call.xid < MaxExchanges
    /\ StartCall("read", cmd.addr, 0)
    /\ UNCHANGED <<cmd, rxbuf, rxsrc, input, devVars, crcVars>>

\* lines 266-270: after a write that returned True, the verification read
VerifyRead ==
    /\ pc = "returned"
    /\ cmd.op = "w" /\ call.kind = "write" /\ result.ret = "True"
    /\ call.xid < MaxExchanges
    /\ StartCall("read", cmd.addr, 0)
    /\ UNCHANGED <<cmd, rxbuf, rxsrc, input, devVars, crcVars>>

\* lines 256, 266, 270: back to the prompt
NextCommand ==
    /\ pc = "returned"
    /\ ~(cmd.op = "w" /\ call.kind = "write" /\ result.ret = "True")
    /\ pc' = "prompt"
    /\ cmd' = NoCmd
    /\ UNCHANGED <<call, attempt, rxbuf, rxsrc, result, response, frame, input, tlog,
                   devVars, crcVars>>

Next ==
    \/ CmdRead \/ CmdWrite \/ CmdQuit
    \/ FlushReset \/ FlushCheck \/ FlushFinal
    \/ SendFrame
    \/ ReadResponse \/ WriteResponse
    \/ VerifyRead \/ NextCommand
    \/ DeviceDeliver \/ DeviceDebug

Spec == Init /\ [][Next]_vars

\* C2 as stated: a Value or an Ack is never decoded from bytes the device
\* emitted for an earlier exchange (0 marks debug text, which belongs to no
\* exchange).
C2_NoStaleAttribution ==
    (pc = "returned" /\ result.outcome \in {"Value", "Ack"}) =>
        \A x \in result.src : x \in {0, call.xid}

(***************************************************************************)
(* The availability check of the register calls (lines 100 and 176).      *)
(***************************************************************************)
\* C11: read_register and write_register return Timeout exactly when no byte
\* is waiting at the one availability check after the settle wait; a buffer
\* that holds bytes never gives Timeout.  The Timeout is returned as None by
\* read_register and as False by write_register.
C11_TimeoutIffEmpty ==
    [][(pc = "recv" /\ pc' = "returned") =>
          /\ result'.outcome = "Timeout" <=> Len(rxbuf) = 0
          /\ result'.outcome = "Timeout" =>
                 /\ result'.branch = "timeout"
                 /\ result'.ret = IF call.kind = "read" THEN "None" ELSE "False"
                 /\ tlog' = tlog \o <<"in_waiting">>]_vars

\* C11 witness: read_register found no byte waiting and returned Timeout
C11_Witness ==
    /\ Returned("read")
    /\ input.tag = "short" /\ Len(input.bytes) = 0
    /\ result.outcome = "Timeout" /\ result.ret = "None"

(***************************************************************************)
(* The exchanges of the interactive loop, one after the other.             *)
(***************************************************************************)
\* the positions of a register call before its frame is written
BeforeSend == {"flush_reset", "flush_check", "flush_final", "send"}

\* C12: a call of read_register or write_register writes its request frame
\* exactly once, whatever it returns (Value, Ack, Nack, Malformed, Timeout);
\* a frame is written only at line 93 / 169 of a call that has written none,
\* a call starts only at the prompt or after the call before it has returned,
\* and the device holds at most one request of each call.
C12_NoRetry ==
    /\ [](/\ pc \in BeforeSend => Count(tlog, "write") = 0
          /\ pc \in {"recv", "returned"} =>
                 Count(tlog, "write") = 1 /\ Count(tlog, "flush") = 1
          /\ pc = "returned" => result.outcome \in Outcomes
          /\ \A i, j \in DOMAIN wire : wire[i].xid = wire[j].xid => i = j
          /\ \A i \in DOMAIN wire : wire[i].xid \in 1..call.xid)
    /\ [][/\ Count(tlog', "write") > Count(tlog, "write") =>
                 /\ pc = "send" /\ pc' = "recv"
                 /\ Count(tlog, "write") = 0
                 /\ call' = call
          /\ call' # call =>
                 /\ pc \in {"prompt", "returned"} /\ pc' = "flush_reset"
                 /\ call'.xid = call.xid + 1
                 /\ tlog' = <<>>]_vars

\* C12 witness: a write was refused with a NACK and the call returned having
\* written one frame
C12_Witness ==
    /\ pc = "returned" /\ call.kind = "write"
    /\ result.outcome = "Nack"
    /\ Count(tlog, "write") = 1

(***************************************************************************)
(* The recovery scan of a buffer longer than 100 bytes (lines 108-116 and *)
(* 184-192).                                                               *)
(***************************************************************************)
\* the offsets of r where AA 01 or AA 00 stands
WriteSigOffsets(r) ==
    {j \in 0..(Len(r) - 2) : r[j + 1] = 170 /\ (r[j + 2] = 1 \/ r[j + 2] = 0)}

\* C13 as stated: with more than 100 bytes received, 'no signature' is
\* returned only if the signature (AA 09 for a read; AA 01 or AA 00 for a
\* write) stands at no offset of the buffer; when it stands at some offset,
\* the last offsets of the buffer included, the window decoded starts at the
\* first such offset.
C13_ScanCoverage ==
    (pc = "returned" /\ Len(response) > 100) =>
        LET sigs == IF call.kind = "read" THEN SigOffsets(response)
                    ELSE WriteSigOffsets(response)
        IN  /\ result.branch = "no_signature" => sigs = {}
            /\ sigs # {} =>
                   /\ result.branch # "no_signature"
                   /\ result.off = SetMin(sigs)
                   /\ Len(result.window) > 0
                   /\ result.window =
                          SubSeq(response, result.off + 1,
                                 result.off + Len(result.window))

(***************************************************************************)
(* The transport operations of one register call, in the order of lines   *)
(* 60-76 and 90-101 (165-177).                                             *)
(***************************************************************************)
\* the place of the write in the log t of a call that has written its frame
WriteAt(t) == SetMin({i \in DOMAIN t : t[i] = "write"})

\* C14: inside one call the input is discarded first (flush_serial_buffer,
\* starting with reset_input_buffer), then the frame is written, then the
\* write is flushed, then, after the settle wait, availability is checked
\* once and at most one read follows, made exactly when bytes are waiting;
\* nothing discards input after the write, and the bytes decoded are bytes of
\* that one read.
C14_OperationOrder ==
    /\ pc \in BeforeSend =>
           \A i \in DOMAIN tlog : tlog[i] \in {"reset_input_buffer", "in_waiting", "read"}
    /\ pc \in {"recv", "returned"} =>
           LET w == WriteAt(tlog)
           IN  /\ w > 1
               /\ tlog[1] = "reset_input_buffer"
               /\ \A i \in 1..(w - 1) :
                      tlog[i] \in {"reset_input_buffer", "in_waiting", "read"}
               /\ tlog[w - 1] \in {"in_waiting", "read"}
               /\ Len(tlog) > w /\ tlog[w + 1] = "flush"
               /\ \A i \in (w + 1)..Len(tlog) : tlog[i] # "reset_input_buffer"
               /\ pc = "recv" => Len(tlog) = w + 1
               /\ pc = "returned" =>
                      /\ Len(tlog) \in {w + 2, w + 3}
                      /\ tlog[w + 2] = "in_waiting"
                      /\ Len(tlog) = w + 3 => tlog[w + 3] = "read"
                      /\ Len(tlog) = w + 3 <=> Len(response) > 0
                      /\ result.window =
                             SubSeq(response, result.off + 1,
                                    result.off + Len(result.window))
                      /\ Len(response) \in 1..NoiseThreshold =>
                             result.window = response

\* C14 witness: a read found the line quiet during the flush, wrote its
\* frame, and decoded the reply of the one read that followed
C14_Witness ==
    /\ pc = "returned" /\ call.kind = "read"
    /\ tlog = <<"reset_input_buffer", "in_waiting", "in_waiting",
                "write", "flush", "in_waiting", "read">>
    /\ result.outcome = "Value"

(***************************************************************************)
(* The response of read_register that is no value frame (lines 143-148).  *)
(***************************************************************************)
\* the condition of line 123 fails on r
NotValueHeader(r) == ~(Len(r) >= 9 /\ r[1] = 170 /\ r[2] = 9)

\* r starts with AA 00
StartsNack(r) == Len(r) >= 2 /\ r[1] = 170 /\ r[2] = 0

\* at most 100 bytes were received by read_register and line 123 refused them
ReadRefused ==
    /\ Returned("read")
    /\ Len(response) \in 1..NoiseThreshold
    /\ NotValueHeader(response)

\* C15 as stated: bytes that fail the check of line 123 and start with AA 00
\* give Nack, the error code from offset 2, and Nack(Unknown) when only those
\* two bytes were received; all other bytes failing the check give Malformed.
C15_Original ==
    ReadRefused =>
        IF StartsNack(response)
        THEN /\ result.outcome = "Nack"
             /\ result.code = IF Len(response) > 2 THEN response[3] ELSE 255
        ELSE result.outcome = "Malformed"

\* C15 amended: bytes that fail the check of line 123 give Nack, the error
\* code from offset 2, when they are at least 3 and start with AA 00; the two
\* bytes AA 00 alone give Malformed, as all other bytes failing the check do;
\* the error code is never defaulted, None is returned in every case, and a
\* buffer of more than 100 bytes never gives Nack.
C15_Amended ==
    /\ ReadRefused =>
           /\ result.ret = "None"
           /\ IF StartsNack(response) /\ Len(response) >= 3
              THEN /\ result.outcome = "Nack"
                   /\ result.code = response[3]
              ELSE /\ result.outcome = "Malformed"
                   /\ result.branch = "invalid"
    /\ (Returned("read") /\ Len(response) > NoiseThreshold) =>
           result.outcome # "Nack"

\* C15 witness: the two bytes AA 00 were received by read_register and
\* reported as an invalid response
C15_Witness ==
    /\ Returned("read") /\ response = <<170, 0>>
    /\ result.outcome = "Malformed" /\ result.branch = "invalid"

(***************************************************************************)
(* The response of write_register (lines 198-217).                        *)
(***************************************************************************)
\* C16 as stated: for at most 100 bytes received by write_register, at least
\* 3 of them and the first AA: second byte 01 gives Ack, second byte 00 gives
\* Nack with the error code of offset 3 (Unknown with only 3 bytes), and any
\* other second byte gives Malformed with the value returned for bytes that
\* are too few or do not start with AA (False).
C16_WriteDecoding ==
    (Returned("write") /\ Len(response) \in 1..NoiseThreshold) =>
        IF Len(response) >= 3 /\ response[1] = 170
        THEN CASE response[2] = 1 ->
                    result.outcome = "Ack" /\ result.ret = "True"
               [] response[2] = 0 ->
                    /\ result.outcome = "Nack" /\ result.ret = "False"
                    /\ result.code = IF Len(response) > 3 THEN response[4] ELSE 255
               [] OTHER ->
                    result.outcome = "Malformed" /\ result.ret = "False"
        ELSE result.outcome = "Malformed" /\ result.ret = "False"

(***************************************************************************)
(* flush_serial_buffer (lines 60-76).  The statements of a call run one    *)
(* after the other and every wait ends: each step of the flush, once       *)
(* reached, is taken.                                                      *)
(***************************************************************************)
SpecFair ==
    Spec /\ WF_vars(FlushReset) /\ WF_vars(FlushCheck) /\ WF_vars(FlushFinal)

\* the transport operations of the flush of the call in progress
FlushLog ==
    IF pc \in BeforeSend THEN tlog ELSE SubSeq(tlog, 1, WriteAt(tlog) - 1)

\* C17: flush_serial_buffer ends, whatever the device delivers: it makes at
\* most max_attempts rounds of reset_input_buffer, wait and availability
\* check, each round but the last draining the bytes it found; it leaves the
\* loop at the first round that finds nothing waiting, or after max_attempts
\* rounds; one more availability check and at most one more drain follow.
C17_FlushTerminates ==
    /\ [](pc \in CallPcs \cup {"returned"} =>
            LET rounds == Count(FlushLog, "reset_input_buffer")
                checks == Count(FlushLog, "in_waiting")
                drains == Count(FlushLog, "read")
            IN  /\ attempt \in 0..FlushMaxAttempts
                /\ rounds <= FlushMaxAttempts
                /\ pc = "flush_reset" => rounds = attempt /\ attempt < FlushMaxAttempts
                /\ pc = "flush_check" => rounds = attempt + 1
                /\ pc \in {"flush_reset", "flush_check"} =>
                       checks = attempt /\ drains = attempt
                /\ pc = "flush_final" =>
                       /\ rounds >= 1
                       /\ checks = rounds /\ drains = attempt
                       /\ \/ rounds = attempt + 1
                          \/ rounds = attempt /\ attempt = FlushMaxAttempts
                /\ pc \in {"send", "recv", "returned"} =>
                       /\ rounds >= 1
                       /\ checks = rounds + 1
                       /\ drains \in {attempt, attempt + 1}
                       /\ \/ rounds = attempt + 1
                          \/ rounds = attempt /\ attempt = FlushMaxAttempts)
    /\ (pc = "flush_reset") ~> (pc = "send")

\* C17 witness: the device delivered bytes in each of the max_attempts
\* rounds; the flush has returned, and bytes are waiting again
C17_Witness ==
    /\ pc = "send"
    /\ attempt = FlushMaxAttempts
    /\ Count(tlog, "read") = FlushMaxAttempts + 1
    /\ Len(rxbuf) > 0

(***************************************************************************)
(* The 'w' command of the interactive loop (lines 257-270).               *)
(***************************************************************************)
\* C18: a read exchange is started for a 'w <addr> <val>' command only when
\* the write exchange of that command has returned Ack, and it reads the
\* address written; after Nack, Malformed or Timeout the loop goes back to
\* the prompt with no further exchange for the command; after Ack it does not
\* go back to the prompt without the read; one read only is made.
C18_VerificationRead ==
    [][/\ (cmd'.op = "w" /\ call'.kind = "read" /\ call' # call) =>
             /\ pc = "returned" /\ pc' = "flush_reset"
             /\ call.kind = "write" /\ result.outcome = "Ack"
             /\ Count(tlog, "write") = 1
             /\ cmd' = cmd
             /\ call'.addr = cmd.addr /\ call.addr = cmd.addr
       /\ (pc = "returned" /\ call.kind = "write" /\ result.outcome # "Ack") =>
             /\ call' = call /\ frame' = frame
             /\ pc' \in {"returned", "prompt"}
       /\ (pc = "returned" /\ call.kind = "write" /\ result.outcome = "Ack") =>
             pc' \in {"returned", "flush_reset"}
       /\ (pc = "returned" /\ call.kind = "read" /\ cmd.op = "w") =>
             /\ call' = call
             /\ pc' \in {"returned", "prompt"}]_vars

\* C18 witness: the register written by a 'w' command was read back after the
\* ACK, and the value written came back
C18_Witness ==
    /\ pc = "returned"
    /\ cmd.op = "w" /\ call.kind = "read" /\ call.addr = cmd.addr
    /\ cmd.addr = 343
    /\ result.outcome = "Value" /\ result.value = cmd.val

(***************************************************************************)
(* read_register after the recovery scan (lines 104-130).                 *)
(***************************************************************************)
\* the comparison of lines 125-128 succeeds on the 9 bytes w
CrcMatches(w) ==
    LET c == crc16_modbus(SubSeq(w, 1, 7))
    IN  w[8] = c % 256 /\ w[9] = c \div 256

\* a valid read reply stands in r at an offset after k
ValidFrameAfter(r, k) ==
    \E j \in (k + 1)..(Len(r) - 9) : IsValueFrame(SubSeq(r, j + 1, j + 9))

\* C19: with more than 100 bytes received, read_register decodes nothing but
\* the 9 bytes at the lowest offset where AA 09 stands; it returns their value
\* when their CRC matches and Malformed (CRC mismatch) when it does not, also
\* when a valid reply starts at a later offset; the outcome is Value or
\* Malformed, never Nack.
C19_FirstSignature ==
    (Returned("read") /\ Len(response) > NoiseThreshold) =>
        /\ result.outcome \in {"Value", "Malformed"}
        /\ result.branch \in {"value", "crc_mismatch", "no_signature"}
        /\ result.branch = "no_signature" =>
               \A j \in SigOffsets(response) : j > Len(response) - 10
        /\ result.branch # "no_signature" =>
               /\ SigOffsets(response) # {}
               /\ result.off = SetMin(SigOffsets(response))
               /\ Len(result.window) = 9
               /\ result.window = SubSeq(response, result.off + 1, result.off + 9)
               /\ IF CrcMatches(result.window)
                  THEN /\ result.outcome = "Value"
                       /\ result.value = result.window[7] * 256 + result.window[6]
                  ELSE /\ result.outcome = "Malformed"
                       /\ result.branch = "crc_mismatch"
                       /\ result.ret = "None"

\* C19 witness: the first AA 09 of the buffer started 9 bytes whose CRC is
\* wrong, a valid reply followed, and Malformed was returned
C19_Witness ==
    /\ Returned("read") /\ Len(response) > NoiseThreshold
    /\ result.branch = "crc_mismatch"
    /\ ValidFrameAfter(response, result.off)

(***************************************************************************)
(* The frame builders on integers outside 0..65535 (lines 24-58), as       *)
(* int(text, 0) of lines 250 and 262 passes them on.                       *)
(***************************************************************************)
\* C20: for every integer address a and value v the interactive loop passes,
\* negative ones and ones above 65535 included, build_read_frame(a) is the
\* frame of a mod 65536 and build_write_frame(a, v) the frame of a mod 65536
\* and v mod 65536; every byte of the frame is in 0..255, so that bytearray
\* accepts it and the frame is built and sent without the input being refused.
C20_BuildersReduceMod65536 ==
    pc = "built" =>
        LET a == call.addr % 65536
            v == call.val % 65536
        IN  /\ \A i \in DOMAIN frame : frame[i] \in Byte
            /\ call.kind = "read" =>
                   /\ Len(frame) = 7
                   /\ SubSeq(frame, 1, 5) = <<170, 9, 2, a % 256, a \div 256>>
                   /\ frame = build_read_frame(a)
            /\ call.kind = "write" =>
                   /\ Len(frame) = 9
                   /\ SubSeq(frame, 1, 7) =
                          <<170, 13, 4, a % 256, a \div 256, v % 256, v \div 256>>
                   /\ frame = build_write_frame(a, v)

\* C20 witness: the write frame for address -1 and value 69736 has been
\* built, and it is the frame for address 65535 and value 4200
C20_Witness ==
    /\ pc = "built" /\ call.kind = "write"
    /\ call.addr = -1 /\ call.val = 69736
    /\ frame = build_write_frame(65535, 4200)

=============================================================================
